---- MODULE Spec2Model ----
(***************************************************************************)
(* Model of yaml-to-env (src/src/main.rs): a manifest file lists paths of  *)
(* line-oriented "key:value" files; the paths are validated, the files are *)
(* parsed and merged into one map, the map is serialized as KEY=VALUE      *)
(* lines and written to the output file.                                   *)
(*                                                                         *)
(* Text is a sequence of one-character strings.  Option and Result values  *)
(* are sequences: <<>> is None / Err, <<x>> is Some(x) / Ok(x).            *)
(***************************************************************************)
EXTENDS Integers, Sequences, FiniteSets, TLC

VARIABLES
    pc,             \* position of main: the next step to run, or "exited"
    configFile,     \* the manifest on disk: <<>> unreadable, <<text>> readable
    fs,             \* source files seen so far: path -> <<>> unreadable | <<text>>
    paths,          \* input_paths / yaml_file_paths of main
    idx,            \* number of completed iterations of the loop of create_env_hashmap
    parsed,         \* parsed_line_key_val_pairs of the latest iteration
    env_hash_map,   \* the HashMap of create_env_hashmap: key -> value
    output_string,  \* the result of convert_map_to_string
    outFile,        \* the output file: <<>> untouched, <<text>> created with this content
    readLog,        \* the paths read_to_string was called with in create_env_hashmap
    messages,       \* what the process printed, in order
    exit            \* <<>> while running, <<code>> once the process has ended

vars == <<pc, configFile, fs, paths, idx, parsed, env_hash_map,
          output_string, outFile, readLog, messages, exit>>

-----------------------------------------------------------------------------
(* Bounds of the input space *)

\* longest manifest, in paths
MaxPaths == 2
\* longest source file when the manifest names several, in characters
MaxFileLen == 2
\* longest source file when the manifest names exactly one, in characters
MaxContentLen == 5

NL == "\n"
\* the characters of source files: a key/value letter, whitespace, the
\* separator and the line terminator (no carriage return, which str::lines
\* would strip before a terminator)
Chars == {"A", " ", ":", NL}

StringsUpTo(n) == UNION {[1..k -> Chars] : k \in 0..n}

YAML == <<"y", "a", "m", "l">>
PathAYaml == <<"a", ".">> \o YAML
PathBYaml == <<"b", ".">> \o YAML
PathATxt == <<"a", ".", "t", "x", "t">>
PathNoExt == <<"a">>
PathEmpty == <<>>
\* the lines a manifest is made of (none holds a path separator)
ManifestPaths == {PathAYaml, PathBYaml, PathATxt, PathNoExt, PathEmpty}

RECURSIVE Join(_)
Join(ps) ==
    IF ps = <<>> THEN <<>>
    ELSE IF Len(ps) = 1 THEN ps[1]
    ELSE ps[1] \o <<NL>> \o Join(Tail(ps))

\* manifest texts: up to MaxPaths lines joined by the line terminator, with
\* or without a terminator after the last line
ManifestTexts ==
    LET seqs == UNION {[1..k -> ManifestPaths] : k \in 0..MaxPaths}
    IN  {Join(ps) : ps \in seqs} \cup {Join(ps) \o <<NL>> : ps \in seqs}

ContentBound(ps) == IF Len(ps) = 1 THEN MaxContentLen ELSE MaxFileLen

\* what std::fs::read_to_string can return for a source path
ReadOutcomes(path, ps) ==
    IF path = <<>> THEN {<<>>}
    ELSE {<<>>} \cup {<<c>> : c \in StringsUpTo(ContentBound(ps))}

-----------------------------------------------------------------------------
(* Pure functions *)

\* index of the first c in s, 0 if none
RECURSIVE FindFrom(_, _, _)
FindFrom(s, c, i) ==
    IF i > Len(s) THEN 0
    ELSE IF s[i] = c THEN i
    ELSE FindFrom(s, c, i + 1)

Find(s, c) == FindFrom(s, c, 1)

\* index of the last c in s, 0 if none
RECURSIVE RFindFrom(_, _, _)
RFindFrom(s, c, i) ==
    IF i < 1 THEN 0
    ELSE IF s[i] = c THEN i
    ELSE RFindFrom(s, c, i - 1)

RFind(s, c) == RFindFrom(s, c, Len(s))

\* str::lines: pieces ended by the line terminator, the terminator removed;
\* text after the last terminator is a line only if it is not empty
RECURSIVE Lines(_)
Lines(s) ==
    IF s = <<>> THEN <<>>
    ELSE LET i == Find(s, NL)
         IN  IF i = 0 THEN <<s>>
             ELSE <<SubSeq(s, 1, i - 1)>> \o Lines(SubSeq(s, i + 1, Len(s)))

\* str::rsplit_once(':'): a mutant of SplitOnce
RSplitOnce(l) ==
    LET i == RFind(l, ":")
    IN  IF i = 0 THEN <<>>
        ELSE << <<SubSeq(l, 1, i - 1), SubSeq(l, i + 1, Len(l))>> >>

\* l.split_once(':') mapped to an Option of (key, value)
SplitOnce(l) ==
    LET i == Find(l, ":")
    IN  IF i = 0 THEN <<>>
        ELSE << <<SubSeq(l, 1, i - 1), SubSeq(l, i + 1, Len(l))>> >>

\* parsed_line_key_val_pairs: one Option per line of the file
ParsedLines(file) ==
    LET ls == Lines(file) IN [i \in 1..Len(ls) |-> SplitOnce(ls[i])]

\* a mutant of AnyNone: only the first line is examined
AnyNoneFirstOnly(opts) == Len(opts) > 0 /\ opts[1] = <<>>

\* a mutant of AnyNone: the check is skipped
AnyNoneNever(opts) == FALSE

\* parsed_line_key_val_pairs.clone().any(|res| res.is_none())
AnyNone(opts) == \E i \in 1..Len(opts) : opts[i] = <<>>

\* res.unwrap_or((String::new(), String::new()))
UnwrapOrEmpty(res) == IF res = <<>> THEN << <<>>, <<>> >> ELSE res[1]

\* HashMap::entry(k).or_insert(v): a mutant of Insert
InsertIfAbsent(m, k, v) ==
    [x \in DOMAIN m \cup {k} |-> IF x \in DOMAIN m THEN m[x] ELSE v]

\* HashMap::insert, as HashMap::extend applies it to each pair
Insert(m, k, v) ==
    [x \in DOMAIN m \cup {k} |-> IF x = k THEN v ELSE m[x]]

\* env_hash_map.extend(parsed_line_key_val_pairs.map(unwrap_or)): the pairs inserted in order
RECURSIVE Extend(_, _)
Extend(m, opts) ==
    IF opts = <<>> THEN m
    ELSE LET kv == UnwrapOrEmpty(Head(opts))
         IN  Extend(Insert(m, kv[1], kv[2]), Tail(opts))

IsWhitespace(c) == c \in {" ", NL}

RECURSIVE TrimStart(_)
TrimStart(s) ==
    IF s # <<>> /\ IsWhitespace(Head(s)) THEN TrimStart(Tail(s)) ELSE s

RECURSIVE TrimEnd(_)
TrimEnd(s) ==
    IF s # <<>> /\ IsWhitespace(s[Len(s)])
    THEN TrimEnd(SubSeq(s, 1, Len(s) - 1)) ELSE s

\* str::trim_start in place of trim: a mutant of Trim
TrimStartOnly(s) == TrimStart(s)

\* str::trim
Trim(s) == TrimEnd(TrimStart(s))

\* format!("{}={}\n", formatted_key, formatted_value)
FormatLine(k, v) == Trim(k) \o <<"=">> \o Trim(v) \o <<NL>>

\* the orders in which HashMap::iter can visit the entries
Orderings(m) ==
    LET n == Cardinality(DOMAIN m)
    IN  {o \in [1..n -> DOMAIN m] : \A i, j \in 1..n : o[i] = o[j] => i = j}

\* convert_map_to_string when the map is iterated in the given order
RECURSIVE ConvertInOrder(_, _)
ConvertInOrder(m, order) ==
    IF order = <<>> THEN <<>>
    ELSE FormatLine(Head(order), m[Head(order)])
         \o ConvertInOrder(m, Tail(order))

\* Path::file_name for a path without separators
FileName(path) == IF path = <<>> THEN <<>> ELSE <<path>>

\* Path::extension: the text after the last dot of the file name; None if
\* there is no file name, no dot, or the only dot is the first character
Extension(path) ==
    LET name == FileName(path)
    IN  IF name = <<>> THEN <<>>
        ELSE LET i == RFind(name[1], ".")
             IN  IF i <= 1 THEN <<>>
                 ELSE <<SubSeq(name[1], i + 1, Len(name[1]))>>

\* paths.iter().any(...) in place of all: a mutant of AllYaml
RECURSIVE AnyYaml(_)
AnyYaml(ps) ==
    IF ps = <<>> THEN "false"
    ELSE LET e == Extension(Head(ps))
         IN  IF e = <<>> THEN "panic"
             ELSE IF e[1] = YAML THEN "true"
             ELSE AnyYaml(Tail(ps))

\* paths.iter().all(|path| path.extension().unwrap() == "yaml"): "true",
\* "false", or "panic" when unwrap meets None before a path decides it
RECURSIVE AllYaml(_)
AllYaml(ps) ==
    IF ps = <<>> THEN "true"
    ELSE LET e == Extension(Head(ps))
         IN  IF e = <<>> THEN "panic"
             ELSE IF e[1] = YAML THEN AllYaml(Tail(ps))
             ELSE "false"

-----------------------------------------------------------------------------
(* The run *)

Msg(stream, kind, path) == [stream |-> stream, kind |-> kind, path |-> path]

\* a panic: the message goes to stderr and the process ends with code 101
Panic(kind, path) ==
    /\ messages' = Append(messages, Msg("stderr", kind, path))
    /\ exit' = <<101>>
    /\ pc' = "exited"

Init ==
    /\ pc = "read_config_file"
    /\ configFile \in {<<>>} \cup {<<t>> : t \in ManifestTexts}
    /\ fs = <<>>
    /\ paths = <<>>
    /\ idx = 0
    /\ parsed = <<>>
    /\ env_hash_map = <<>>
    /\ output_string = <<>>
    /\ outFile = <<>>
    /\ readLog = <<>>
    /\ messages = <<>>
    /\ exit = <<>>

\* main, line 122: read_config_file
ReadConfigFile ==
    /\ pc = "read_config_file"
    /\ IF configFile = <<>>
       THEN /\ Panic("ConfigReadError", <<>>)
            /\ UNCHANGED paths
       ELSE /\ paths' = Lines(configFile[1])
            /\ pc' = "assert_paths_are_yaml_files"
            /\ UNCHANGED <<messages, exit>>
    /\ UNCHANGED <<configFile, fs, idx, parsed, env_hash_map, output_string,
                   outFile, readLog>>

\* main, line 123: assert_paths_are_yaml_files(...).unwrap()
AssertPathsAreYamlFiles ==
    /\ pc = "assert_paths_are_yaml_files"
    /\ LET r == AllYaml(paths)
       IN  CASE r = "true" ->
                  /\ pc' = "create_env_hashmap"
                  /\ UNCHANGED <<messages, exit>>
             [] r = "panic" ->
                  Panic("UnwrapNone", <<>>)
             [] OTHER ->
                  /\ messages' = messages
                        \o <<Msg("stdout", "PathsDebug", <<>>),
                             Msg("stderr", "PathValidationError", <<>>)>>
                  /\ exit' = <<101>>
                  /\ pc' = "exited"
    /\ UNCHANGED <<configFile, fs, paths, idx, parsed, env_hash_map,
                   output_string, outFile, readLog>>

\* one iteration of the loop of create_env_hashmap that goes on after a
\* failed file instead of returning: a mutant of ExtractFile
ExtractFileContinue ==
    /\ pc = "create_env_hashmap"
    /\ idx < Len(paths)
    /\ LET path == paths[idx + 1]
       IN  /\ \E r \in ReadOutcomes(path, paths) :
                /\ path \in DOMAIN fs => r = fs[path]
                /\ fs' = [p \in DOMAIN fs \cup {path} |->
                             IF p = path THEN r ELSE fs[p]]
                /\ IF r = <<>>
                   THEN /\ messages' = Append(messages,
                               Msg("stderr", "SourceReadError", path))
                        /\ UNCHANGED <<parsed, env_hash_map>>
                   ELSE /\ parsed' = ParsedLines(r[1])
                        /\ IF AnyNone(parsed')
                           THEN /\ messages' = Append(messages,
                                      Msg("stderr", "ContentValidationError", path))
                                /\ UNCHANGED env_hash_map
                           ELSE /\ env_hash_map' = Extend(env_hash_map, parsed')
                                /\ UNCHANGED messages
           /\ readLog' = Append(readLog, path)
    /\ idx' = idx + 1
    /\ UNCHANGED <<pc, exit, configFile, paths, output_string, outFile>>

\* main, line 124: one iteration of the loop of create_env_hashmap
ExtractFile ==
    /\ pc = "create_env_hashmap"
    /\ idx < Len(paths)
    /\ LET path == paths[idx + 1]
       IN  /\ \E r \in ReadOutcomes(path, paths) :
                /\ path \in DOMAIN fs => r = fs[path]
                /\ fs' = [p \in DOMAIN fs \cup {path} |->
                             IF p = path THEN r ELSE fs[p]]
                /\ IF r = <<>>
                   THEN /\ Panic("SourceReadError", path)
                        /\ UNCHANGED <<idx, parsed, env_hash_map>>
                   ELSE /\ parsed' = ParsedLines(r[1])
                        /\ IF AnyNone(parsed')
                           THEN /\ Panic("ContentValidationError", path)
                                /\ UNCHANGED <<idx, env_hash_map>>
                           ELSE /\ env_hash_map' = Extend(env_hash_map, parsed')
                                /\ idx' = idx + 1
                                /\ UNCHANGED <<pc, messages, exit>>
           /\ readLog' = Append(readLog, path)
    /\ UNCHANGED <<configFile, paths, output_string, outFile>>

\* main, line 125: the loop is over, convert_map_to_string
ConvertMapToString ==
    /\ pc = "create_env_hashmap"
    /\ idx = Len(paths)
    /\ \E order \in Orderings(env_hash_map) :
          output_string' = ConvertInOrder(env_hash_map, order)
    /\ pc' = "write_env_file"
    /\ UNCHANGED <<configFile, fs, paths, idx, parsed, env_hash_map, outFile,
                   readLog, messages, exit>>

\* main, lines 126-131: write_env_file, the report and the return of main
WriteEnvFile ==
    /\ pc = "write_env_file"
    /\ \/ \* File::create fails
          /\ UNCHANGED outFile
          /\ messages' = Append(messages, Msg("stdout", "OutputWriteError", <<>>))
       \/ \* File::create succeeds, write_all fails after part of the text
          /\ \E n \in 0..(Len(output_string) - 1) :
                outFile' = <<SubSeq(output_string, 1, n)>>
          /\ messages' = Append(messages, Msg("stdout", "OutputWriteError", <<>>))
       \/ \* both succeed
          /\ outFile' = <<output_string>>
          /\ messages' = Append(messages, Msg("stdout", "Success", <<>>))
    /\ exit' = <<0>>
    /\ pc' = "exited"
    /\ UNCHANGED <<configFile, fs, paths, idx, parsed, env_hash_map,
                   output_string, readLog>>

Next ==
    \/ ReadConfigFile
    \/ AssertPathsAreYamlFiles
    \/ ExtractFile
    \/ ConvertMapToString
    \/ WriteEnvFile

Spec == Init /\ [][Next]_vars

-----------------------------------------------------------------------------
(* Vocabulary of the properties, stated over the text itself *)

Range(s) == {s[i] : i \in 1..Len(s)}

Last(s) == s[Len(s)]

Min(S) == CHOOSE x \in S : \A y \in S : x <= y

Max(S) == CHOOSE x \in S : \A y \in S : x >= y

\* the positions at which a line of text c begins
LineStarts(c) == {s \in 1..Len(c) : s = 1 \/ c[s - 1] = NL}

\* the line of c that begins at position s, without its terminator
LineAt(c, s) ==
    LET e == Min({k \in s..Len(c) : c[k] = NL} \cup {Len(c) + 1})
    IN  SubSeq(c, s, e - 1)

\* the lines of c in order
LinesOf(c) ==
    LET S == LineStarts(c)
    IN  [i \in 1..Cardinality(S) |->
            LineAt(c, CHOOSE s \in S : Cardinality({t \in S : t < s}) = i - 1)]

HasColon(l) == ":" \in Range(l)

\* some line of c has no colon
Malformed(c) == \E i \in 1..Len(LinesOf(c)) : ~HasColon(LinesOf(c)[i])

\* the path ends in ".yaml" after a non-empty stem
HasYamlExt(p) ==
    /\ Len(p) > 5
    /\ SubSeq(p, Len(p) - 4, Len(p)) = <<".">> \o YAML

\* the path has no extension: no dot after the first character
HasNoExt(p) == \A i \in 2..Len(p) : p[i] # "."

\* text before / after the first colon of a line that has one
KeyOf(l) == SubSeq(l, 1, Min({i \in 1..Len(l) : l[i] = ":"}) - 1)

ValueOf(l) == SubSeq(l, Min({i \in 1..Len(l) : l[i] = ":"}) + 1, Len(l))

\* s without its leading and trailing whitespace
Trimmed(s) ==
    LET solid == {i \in 1..Len(s) : s[i] \notin {" ", NL}}
    IN  IF solid = {} THEN <<>> ELSE SubSeq(s, Min(solid), Max(solid))

\* the lines of the files read in the first n iterations, in reading order
RECURSIVE LinesRead(_)
LinesRead(n) ==
    IF n = 0 THEN <<>>
    ELSE LinesRead(n - 1) \o LinesOf(fs[readLog[n]][1])

ErrorKinds ==
    {"ConfigReadError", "PathValidationError", "UnwrapNone", "SourceReadError",
     "ContentValidationError", "OutputWriteError"}

Errors == SelectSeq(messages, LAMBDA m : m.kind \in ErrorKinds)

Succeeded == \E i \in 1..Len(messages) : messages[i].kind = "Success"

\* the file at the i-th position of the reading log is unreadable or malformed
FailsAt(i) ==
    LET r == fs[readLog[i]] IN r = <<>> \/ Malformed(r[1])

-----------------------------------------------------------------------------
(* Properties *)

\* C1: path validation is all-or-nothing.  Once the manifest has been read:
\* if every path ends in ".yaml", validation does not end the run and
\* extraction is handed the manifest's own sequence (what is read is a
\* prefix of it, all of it when the loop is over); if some path does not,
\* the run ends in the validation step, no source file is ever read and no
\* pair is merged.
C1_ValidationAllOrNothing ==
    (pc # "read_config_file" /\ configFile # <<>>) =>
        /\ paths = LinesOf(configFile[1])
        /\ IF \A i \in 1..Len(paths) : HasYamlExt(paths[i])
           THEN /\ \A i \in 1..Len(messages) :
                      messages[i].kind \notin {"PathValidationError", "UnwrapNone"}
                /\ Len(readLog) <= Len(paths)
                /\ readLog = SubSeq(paths, 1, Len(readLog))
                /\ pc = "write_env_file" => readLog = paths
           ELSE /\ readLog = <<>>
                /\ env_hash_map = <<>>
                /\ outFile = <<>>
                /\ pc \in {"assert_paths_are_yaml_files", "exited"}
                /\ pc = "exited" =>
                      /\ exit = <<101>>
                      /\ Last(messages).kind
                            \in {"PathValidationError", "UnwrapNone"}

\* C1 witness: a manifest with a valid path before an invalid one has been
\* rejected
C1_Witness ==
    /\ pc = "exited"
    /\ Len(paths) = 2
    /\ HasYamlExt(paths[1])
    /\ ~HasYamlExt(paths[2])
    /\ Last(messages).kind = "PathValidationError"

\* C2: the output file is touched only after the manifest was read, every
\* path validated and every source file of the manifest read and found well
\* formed; a run that reports one of the earlier failures leaves it untouched.
C2_OutputOnlyAfterFullSuccess ==
    /\ outFile # <<>> =>
          /\ configFile # <<>>
          /\ paths = LinesOf(configFile[1])
          /\ \A i \in 1..Len(paths) : HasYamlExt(paths[i])
          /\ readLog = paths
          /\ \A i \in 1..Len(readLog) : ~FailsAt(i)
    /\ (\E i \in 1..Len(messages) :
            messages[i].kind \in {"ConfigReadError", "PathValidationError",
                                  "UnwrapNone", "SourceReadError",
                                  "ContentValidationError"})
          => outFile = <<>>

\* C2 witness: the second file of the manifest is malformed after a first
\* valid one contributed pairs, and the run has ended
C2_Witness ==
    /\ pc = "exited"
    /\ Len(readLog) = 2
    /\ ~FailsAt(1)
    /\ env_hash_map # <<>>
    /\ fs[readLog[2]] # <<>>
    /\ Malformed(fs[readLog[2]][1])
    /\ outFile = <<>>

\* C3: the iteration that reads a file with a line without a colon (an empty
\* line included) reports a content validation error naming that path, ends
\* the run, and leaves the map as it was: the file contributes no pair.
C3_MalformedFileRejectedWhole ==
    [][(/\ readLog' # readLog
        /\ fs'[Last(readLog')] # <<>>
        /\ Malformed(fs'[Last(readLog')][1]))
       => (/\ env_hash_map' = env_hash_map
           /\ messages' = Append(messages,
                 Msg("stderr", "ContentValidationError", Last(readLog')))
           /\ pc' = "exited"
           /\ exit' = <<101>>)]_vars

\* C3 witness: a file whose first line is valid and whose second line is
\* empty has been rejected
C3_Witness ==
    /\ pc = "exited"
    /\ readLog # <<>>
    /\ fs[Last(readLog)] # <<>>
    /\ LET ls == LinesOf(fs[Last(readLog)][1])
       IN  /\ Len(ls) = 3
           /\ HasColon(ls[1])
           /\ ls[2] = <<>>
           /\ HasColon(ls[3])
    /\ Last(messages).kind = "ContentValidationError"

\* C4: reading a file in which every line has a colon succeeds and yields
\* one pair per line, in line order; each key holds no colon and key, colon
\* and value put together give back the line, so the split is at the first
\* colon and key and value are untrimmed.
C4_OnePairPerLineFirstColon ==
    (/\ readLog # <<>>
     /\ fs[Last(readLog)] # <<>>
     /\ ~Malformed(fs[Last(readLog)][1])) =>
        LET ls == LinesOf(fs[Last(readLog)][1])
        IN  /\ \A i \in 1..Len(messages) :
                  messages[i].kind # "ContentValidationError"
            /\ idx = Len(readLog)
            /\ Len(parsed) = Len(ls)
            /\ \A i \in 1..Len(ls) :
                  /\ parsed[i] # <<>>
                  /\ ~HasColon(parsed[i][1][1])
                  /\ parsed[i][1][1] \o <<":">> \o parsed[i][1][2] = ls[i]

\* C4 witness: a file with the lines "::" (empty key, a colon in the value)
\* and "A:" (empty value) has been extracted
C4_Witness ==
    /\ Len(parsed) = 2
    /\ parsed[1] = << << <<>>, <<":">> >> >>
    /\ parsed[2] = << << <<"A">>, <<>> >> >>

\* C5: at every point of the loop the map holds exactly one entry per
\* distinct untrimmed key among the lines merged so far, in manifest order
\* then line order, and its value is the value of the last such line.
C5_LastWriteWins ==
    (idx = Len(readLog) /\ \A i \in 1..idx : ~FailsAt(i)) =>
        LET ls == LinesRead(idx)
        IN  /\ DOMAIN env_hash_map = {KeyOf(ls[i]) : i \in 1..Len(ls)}
            /\ \A k \in DOMAIN env_hash_map :
                  env_hash_map[k] =
                     ValueOf(ls[Max({i \in 1..Len(ls) : KeyOf(ls[i]) = k})])

\* C5 witness: two files were merged, the second redefines a key of the
\* first with another value
C5_Witness ==
    /\ pc = "exited"
    /\ Succeeded
    /\ Len(readLog) = 2
    /\ readLog[1] # readLog[2]
    /\ LET a == LinesOf(fs[readLog[1]][1])
           b == LinesOf(fs[readLog[2]][1])
       IN  /\ Len(a) = 1 /\ Len(b) = 1
           /\ KeyOf(a[1]) = KeyOf(b[1])
           /\ ValueOf(a[1]) # ValueOf(b[1])

\* C6: once serialized, the output text is made of terminated lines only,
\* one per entry of the map and nothing else: each text occurs as a line as
\* often as there are entries whose trimmed key, "=", trimmed value give it.
\* A successful run has written exactly this text.
C6_OutputOneTrimmedLinePerEntry ==
    (pc = "write_env_file" \/ (pc = "exited" /\ Succeeded)) =>
        LET out == LinesOf(output_string)
            lineOf(k) == Trimmed(k) \o <<"=">> \o Trimmed(env_hash_map[k])
        IN  /\ output_string # <<>> => Last(output_string) = NL
            /\ Len(out) = Cardinality(DOMAIN env_hash_map)
            /\ \A k \in DOMAIN env_hash_map :
                  Cardinality({i \in 1..Len(out) : out[i] = lineOf(k)})
                     = Cardinality({j \in DOMAIN env_hash_map :
                                       lineOf(j) = lineOf(k)})
            /\ Succeeded => outFile = <<output_string>>

\* C6 witness: a run succeeded whose map has a key with whitespace before it
\* and a value with whitespace after it
C6_Witness ==
    /\ pc = "exited"
    /\ Succeeded
    /\ env_hash_map = [k \in {<<" ", "A">>} |-> <<"A", " ">>]
    /\ outFile = << <<"A", "=", "A", NL>> >>

\* C7: every fatal failure, the failure to create or write the output file
\* included, ends the run with a non-zero exit code and an error message and
\* without the success message; the success message is printed only when the
\* output file has been written.
C7_FailureExitsNonZero ==
    pc = "exited" =>
        /\ Errors # <<>> => (exit # <<0>> /\ ~Succeeded)
        /\ Errors = <<>> => (exit = <<0>> /\ Succeeded)
        /\ Succeeded => outFile = <<output_string>>

\* C8: a run whose manifest holds a path without extension (an empty line
\* included) ends with the path validation error and no other failure.
C8_NoExtensionIsValidationError ==
    (/\ pc = "exited"
     /\ configFile # <<>>
     /\ \E i \in 1..Len(paths) : HasNoExt(paths[i])) =>
        /\ Len(Errors) = 1
        /\ Errors[1].kind = "PathValidationError"

\* C9: at most one error is ever reported; a failing source file is the
\* last one read, so none after the first failing one in manifest order is
\* read, and the run ends there with the one error naming that file.
C9_FirstFailureWins ==
    /\ Len(Errors) <= 1
    /\ \A i \in 1..Len(readLog) :
          FailsAt(i) =>
             /\ i = Len(readLog)
             /\ readLog = SubSeq(paths, 1, i)
             /\ pc = "exited"
             /\ exit = <<101>>
             /\ Errors = <<Msg("stderr",
                               IF fs[readLog[i]] = <<>>
                               THEN "SourceReadError"
                               ELSE "ContentValidationError",
                               readLog[i])>>

\* C9 witness: the manifest names the same failing file twice and the run
\* has ended after reading it once
C9_Witness ==
    /\ pc = "exited"
    /\ Len(paths) = 2
    /\ paths[1] = paths[2]
    /\ readLog = <<paths[1]>>
    /\ FailsAt(1)

\* C10: in the text written by a successful run no two lines carry the same
\* key (the text before "=").
C10_OutputKeysDistinct ==
    (pc = "exited" /\ Succeeded) =>
        LET out == LinesOf(outFile[1])
            keyOf(l) == SubSeq(l, 1, Min({i \in 1..Len(l) : l[i] = "="}) - 1)
        IN  \A i, j \in 1..Len(out) : keyOf(out[i]) = keyOf(out[j]) => i = j

====
